---- MODULE Spec2Model ----
(***************************************************************************)
(* The user-creation write pipeline of acorn-pups-infra-cognito:           *)
(*   - the Cognito post-confirmation Lambda (src/unnamed/part_001), and    *)
(*   - the retry-processor Lambda fed by the primary retry queue           *)
(*     (src/unnamed/part_002).                                             *)
(* Every handler run is computed by an operator that follows the code's    *)
(* try/catch structure and yields a "run": the client calls it made, in    *)
(* order, what it inserted and enqueued, and whether an exception escaped. *)
(* The actions apply a run to the table and the queues.                    *)
(***************************************************************************)
EXTENDS Integers, Sequences, FiniteSets, TLC

\* ------------------------------------------------------------- bounds
\* Invocations of the post-confirmation trigger that are modelled.
MaxInvocations == 2
\* Largest MAX_RETRY_ATTEMPTS value the deployment may configure.
MaxConfiguredAttempts == 4
\* Duplicate deliveries of retry messages (at-least-once delivery).
MaxRedeliveries == 1
\* Messages with an unparsable body that a foreign producer puts on the retry queue.
MaxForeign == 1

\* ---------------------------------------------------- program constants
\* MAX_RETRY_ATTEMPTS set by the stack for non-prod environments.
MinConfiguredAttempts == 2
\* DelaySeconds of the post-confirmation Lambda's enqueue.
InitialDelaySeconds == 30
\* The cap and the base of the retry processor's backoff.
MaxDelaySeconds == 300
BaseDelaySeconds == 30
\* batchSize of the retry processor's SQS event source in prod, and the
\* MAX_RETRY_ATTEMPTS the stack sets there.
BatchSize == 5
ProdRetryAttempts == 3

Null == "null"
Lineages == 1..MaxInvocations
\* A delivery chain: the trigger invocation l and the deliveries that descend
\* from it are chain <<l, 0>>; the c-th duplicate delivery starts chain <<l, c>>,
\* which shares its past with the chain of the duplicated message.
\* A message that no trigger invocation produced is a chain of its own, <<0, k>>.
ForeignChains == {0} \X (1..MaxForeign)
Chains == (Lineages \X (0..MaxRedeliveries)) \cup ForeignChains
Subs == {"sub-1", "sub-2"}

\* A trigger event: userName is the Cognito sub; request.userAttributes may be
\* missing from a malformed event (defined = FALSE).
EmailOf(sub) == IF sub = "sub-1" THEN "a@x.com" ELSE "b@x.com"

Events ==
  {[userName |-> s, userAttributes |-> [defined |-> d, email |-> EmailOf(s), name |-> Null]] :
     s \in Subs, d \in BOOLEAN}

\* The trigger of an invocation that has not happened.
NoEvent ==
  [userName |-> Null, userAttributes |-> [defined |-> FALSE, email |-> Null, name |-> Null]]

\* process.env of the post-confirmation Lambda: which variables are set.
Envs == [USERS_TABLE_NAME : BOOLEAN, PRIMARY_RETRY_QUEUE_URL : BOOLEAN]

VARIABLES
  MAX_RETRY_ATTEMPTS, \* the retry processor's module constant, read from its environment
  processEnv,         \* the post-confirmation Lambda's environment
  usersTable,         \* the DynamoDB users table: a set of items
  retryQueue,         \* messages on the primary retry queue
  manualQueue,        \* messages on the manual intervention queue
  returned,           \* per trigger invocation: "none", "event" (the event it was given),
                      \* "other" (another value), "raised" or "timeout"
  trigger,            \* per trigger invocation: the event it was called with
  calls,              \* per chain: the client calls made along it so far, in order
  clock,              \* per chain: the time of its next handler run
  redeliveries        \* duplicate deliveries so far

vars == <<MAX_RETRY_ATTEMPTS, processEnv, usersTable, retryQueue, manualQueue, returned, trigger,
          calls, clock, redeliveries>>

\* --------------------------------------------------------------- runs
\* One client call: op is "put", "metric", "retry_send", "manual_send" or "alert".
Call(op, what, n, d, e, key, ts) ==
  [op |-> op, what |-> what, n |-> n, d |-> d, e |-> e, key |-> key, ts |-> ts]

NoError == [name |-> Null, message |-> Null]

EmptyRun ==
  [threw |-> FALSE, error |-> NoError, calls |-> <<>>, items |-> {}, msgs |-> {}, manual |-> {}]

Throw(err) == [EmptyRun EXCEPT !.threw = TRUE, !.error = err]

\* b runs after a, whatever a did (the effects of a stay).
Join(a, b) ==
  [threw |-> b.threw, error |-> b.error, calls |-> a.calls \o b.calls,
   items |-> a.items \cup b.items, msgs |-> a.msgs \cup b.msgs,
   manual |-> a.manual \cup b.manual]

\* a; b: b runs only when a did not throw.
Then(a, b) == IF a.threw THEN a ELSE Join(a, b)

NoKey == <<0, 0>>

\* ------------------------------------------------------ client calls
\* publishMetric without its catch: a failed publish propagates.
PublishMetricRethrows(metricName, n, e, cwUp) ==
  [EmptyRun EXCEPT !.calls = <<Call("metric", metricName, n, 0, e, NoKey, 0)>>,
                   !.threw = ~cwUp,
                   !.error = IF cwUp THEN NoError
                             ELSE [name |-> "CloudWatchError",
                                   message |-> "metric publish failed"]]

\* publishMetric: cloudwatch.send inside try/catch; a failed publish is logged
\* and swallowed. cwUp tells whether CloudWatch accepts the publish.
PublishMetric(metricName, n, e, cwUp) ==
  [EmptyRun EXCEPT !.calls = <<Call("metric", metricName, n, 0, e, NoKey, 0)>>]

\* sendAdminAlert with a message that leaves out the record key and the
\* timestamp it was given.
SendAdminAlertWithoutContext(subject, n, e, key, ts, snsUp) ==
  [EmptyRun EXCEPT !.calls = <<Call("alert", subject, n, 0, e, NoKey, 0)>>]

\* sendAdminAlert without its catch: a failed publish propagates.
SendAdminAlertRethrows(subject, n, e, key, ts, snsUp) ==
  [EmptyRun EXCEPT !.calls = <<Call("alert", subject, n, 0, e, key, ts)>>,
                   !.threw = ~snsUp,
                   !.error = IF snsUp THEN NoError
                             ELSE [name |-> "SNSError", message |-> "publish failed"]]

\* sendAdminAlert: sns.send inside try/catch; a failed publish is swallowed.
SendAdminAlert(subject, n, e, key, ts, snsUp) ==
  [EmptyRun EXCEPT !.calls = <<Call("alert", subject, n, 0, e, key, ts)>>]

\* A put without its ConditionExpression: it never finds the key present.
NoCondition(table, item) == FALSE

\* dynamoDb.send(PutCommand) with ConditionExpression attribute_not_exists(PK):
\* the item is inserted when no item has its PK; the call rejects when the
\* condition fails or when the service fails. n is the attempt count of the
\* caller (0 in the post-confirmation Lambda).
ConditionFailed(table, item) == \E i \in table : i.PK = item.PK

PutCommand(table, item, dynamoUp, n) ==
  IF ~dynamoUp
  THEN [Throw([name |-> "ServiceUnavailable", message |-> "store unavailable"])
          EXCEPT !.calls = <<Call("put", "Error", n, 0, Null, item.user_id, 0)>>]
  ELSE IF ConditionFailed(table, item)
  THEN [Throw([name |-> "ConditionalCheckFailedException",
               message |-> "The conditional request failed"])
          EXCEPT !.calls = <<Call("put", "ConditionalCheckFailed", n, 0, Null, item.user_id, 0)>>]
  ELSE [EmptyRun EXCEPT !.calls = <<Call("put", "Inserted", n, 0, Null, item.user_id, 0)>>,
                        !.items = {item}]

\* sqs.send(SendMessageCommand) to the primary retry queue.
SendRetryMessage(c, payload, delaySeconds, sqsUp, now) ==
  IF sqsUp
  THEN [EmptyRun EXCEPT
          !.calls = <<Call("retry_send", "ok", payload.attemptCount, delaySeconds,
                           payload.lastError, payload.userRecord.user_id,
                           payload.firstAttemptTimestamp)>>,
          !.msgs = {[chain |-> c, id |-> now, body |-> payload,
                     DelaySeconds |-> delaySeconds]}]
  ELSE [Throw([name |-> "SQSError", message |-> "send failed"]) EXCEPT
          !.calls = <<Call("retry_send", "failed", payload.attemptCount, delaySeconds,
                           payload.lastError, payload.userRecord.user_id,
                           payload.firstAttemptTimestamp)>>]

\* ------------------------------------------- post-confirmation Lambda
\* The user record of lines 47-64 / 143-160; the prefixes usr_ and USER# are
\* kept as tags on the generated id.
BuildRecord(event, uuid, currentTimestamp) ==
  [PK |-> <<"USER#usr_", uuid>>,
   user_id |-> uuid,
   email |-> event.userAttributes.email,
   cognito_sub |-> event.userName,
   full_name |-> IF event.userAttributes.name = Null
                 THEN event.userAttributes.email ELSE event.userAttributes.name,
   created_at |-> currentTimestamp,
   updated_at |-> currentTimestamp]

\* crypto.randomUUID(): a value no other call returns; call k of invocation l.
RandomUUID(l, k) == <<l, k>>

TypeError == [name |-> "TypeError", message |-> "Cannot read properties of undefined"]

SendToRetryQueue(c, originalEvent, error, hasRecord, givenRecord, env, sqsUp, cwUp, now) ==
  IF ~env.PRIMARY_RETRY_QUEUE_URL THEN EmptyRun
  ELSE IF ~hasRecord /\ ~originalEvent.userAttributes.defined THEN EmptyRun
  ELSE
    LET userRecord == IF hasRecord THEN givenRecord
                      ELSE BuildRecord(originalEvent, RandomUUID(c[1], 2), now)
        retryPayload == [userRecord |-> userRecord,
                         originalEvent |-> originalEvent,
                         attemptCount |-> 1,
                         firstAttemptTimestamp |-> now,
                         lastError |-> error.message]
        body == Then(SendRetryMessage(c, retryPayload, InitialDelaySeconds, sqsUp, now),
                     PublishMetric("UserCreationSentToRetryQueue", 0, Null, cwUp))
    IN IF body.threw
       THEN Join(body, PublishMetric("UserCreationRetryQueueSendFailure", 0, Null, cwUp))
       ELSE body

MissingTableError ==
  [name |-> "Error", message |-> "Missing USERS_TABLE_NAME environment variable"]

\* The inner try/catch of handler with its catch block run on every path, as
\* a finally block would be.
CreateUserRecordAlwaysQueues(c, event, userRecord, env, table, dynamoUp, sqsUp, cwUp, now) ==
  LET write == Then(PutCommand(table, userRecord, dynamoUp, 0),
                    PublishMetric("UserCreationSuccess", 0, Null, cwUp))
  IN Join(write,
          Then(PublishMetric("UserCreationImmediateFailure", 0, write.error.name, cwUp),
               SendToRetryQueue(c, event, write.error, TRUE, userRecord,
                                env, sqsUp, cwUp, now)))

\* A handler whose inner catch does not hand its Record to sendToRetryQueue,
\* which then builds another one.
CreateUserRecordRebuilds(c, event, userRecord, env, table, dynamoUp, sqsUp, cwUp, now) ==
  LET write == Then(PutCommand(table, userRecord, dynamoUp, 0),
                    PublishMetric("UserCreationSuccess", 0, Null, cwUp))
  IN IF write.threw
     THEN Join(write,
               Then(PublishMetric("UserCreationImmediateFailure", 0, write.error.name, cwUp),
                    SendToRetryQueue(c, event, write.error, FALSE, userRecord,
                                     env, sqsUp, cwUp, now)))
     ELSE write

\* The inner try/catch of handler (lines 68-91): the conditional put and the
\* success metric; on a rejection the failure metric and the hand-off to the
\* retry queue.
CreateUserRecord(c, event, userRecord, env, table, dynamoUp, sqsUp, cwUp, now) ==
  LET write == Then(PutCommand(table, userRecord, dynamoUp, 0),
                    PublishMetric("UserCreationSuccess", 0, Null, cwUp))
  IN IF write.threw
     THEN Join(write,
               Then(PublishMetric("UserCreationImmediateFailure", 0, write.error.name, cwUp),
                    SendToRetryQueue(c, event, write.error, TRUE, userRecord,
                                     env, sqsUp, cwUp, now)))
     ELSE write

\* handler (lines 20-114): the run of one invocation. The invocation returns
\* the event unless the run threw.
Handler(l, event, env, table, dynamoUp, sqsUp, cwUp, now) ==
  LET c == <<l, 0>>
      userRecord == BuildRecord(event, RandomUUID(l, 1), now)
      inner == CreateUserRecord(c, event, userRecord, env, table, dynamoUp, sqsUp, cwUp, now)
      body == IF ~env.USERS_TABLE_NAME
              THEN SendToRetryQueue(c, event, MissingTableError, FALSE, userRecord,
                                    env, sqsUp, cwUp, now)
              ELSE IF ~event.userAttributes.defined THEN Throw(TypeError)
              ELSE inner
  IN IF body.threw
     THEN Join(body,
               Then(PublishMetric("UserCreationUnexpectedFailure", 0, Null, cwUp),
                    SendToRetryQueue(c, event, body.error, FALSE, userRecord,
                                     env, sqsUp, cwUp, now)))
     ELSE body

\* A handler that answers a missing table name with an empty event.
HandlerReturnsEmptyOnMissingTable(event, env) ==
  IF ~env.USERS_TABLE_NAME THEN NoEvent ELSE event

\* The value of a completed invocation: return event at line 37 (missing
\* table name) and at line 113 (every other path). No statement of the handler
\* or of sendToRetryQueue assigns to the event or to a property of it.
HandlerReturn(event, env) ==
  IF ~env.USERS_TABLE_NAME THEN event ELSE event

\* ---------------------------------------------- retry-processor Lambda
RECURSIVE Pow2(_)
Pow2(n) == IF n = 0 THEN 1 ELSE 2 * Pow2(n - 1)

Min(a, b) == IF a <= b THEN a ELSE b

\* The backoff without its cap.
UncappedRetryDelay(newAttemptCount) == Pow2(newAttemptCount) * BaseDelaySeconds

\* The backoff that doubles from the maximum delay and has no cap.
RetryDelayFromCap(newAttemptCount) == Pow2(newAttemptCount) * MaxDelaySeconds

\* line 105: Math.min(300, Math.pow(2, newAttemptCount) * 30)
RetryDelaySeconds(newAttemptCount) ==
  Min(MaxDelaySeconds, Pow2(newAttemptCount) * BaseDelaySeconds)

\* An attempt count that skips a value.
SkippingAttemptCount(attemptCount) == attemptCount + 2

\* line 86: payload.attemptCount + 1
NewAttemptCount(attemptCount) == attemptCount + 1

\* A limit that is off by one.
OneMoreRetry(newAttemptCount, maxRetryAttempts) == newAttemptCount <= maxRetryAttempts + 1

\* line 94: newAttemptCount <= MAX_RETRY_ATTEMPTS
WithinRetryLimits(newAttemptCount, maxRetryAttempts) == newAttemptCount <= maxRetryAttempts

\* A recovery test that also holds on the first attempt.
AlwaysRecovery(attemptCount) == attemptCount >= 1

\* line 70: payload.attemptCount > 1
IsRecovery(attemptCount) == attemptCount > 1

\* sqs.send(SendMessageCommand) to the manual intervention queue.
SendManualMessage(c, manualPayload, sqsUp, now) ==
  IF sqsUp
  THEN [EmptyRun EXCEPT
          !.calls = <<Call("manual_send", "ok", manualPayload.attemptCount, 0,
                           manualPayload.lastError, manualPayload.userRecord.user_id,
                           manualPayload.firstAttemptTimestamp)>>,
          !.manual = {[chain |-> c, id |-> now, body |-> manualPayload]}]
  ELSE [Throw([name |-> "SQSError", message |-> "send failed"]) EXCEPT
          !.calls = <<Call("manual_send", "failed", manualPayload.attemptCount, 0,
                           manualPayload.lastError, manualPayload.userRecord.user_id,
                           manualPayload.firstAttemptTimestamp)>>]

\* A re-scheduled Envelope that restamps its first attempt and its Record.
UpdatedPayloadRestamped(payload, newAttemptCount, error, now) ==
  [payload EXCEPT !.attemptCount = newAttemptCount,
                  !.lastError = error.message,
                  !.firstAttemptTimestamp = now,
                  !.userRecord.created_at = now,
                  !.userRecord.updated_at = now]

\* A re-scheduled Envelope that already carries the terminal marker.
UpdatedPayloadMarked(payload, newAttemptCount, error, now) ==
  [userRecord |-> payload.userRecord,
   originalEvent |-> payload.originalEvent,
   attemptCount |-> newAttemptCount,
   firstAttemptTimestamp |-> payload.firstAttemptTimestamp,
   lastError |-> error.message,
   finalFailureTimestamp |-> now,
   requiresManualIntervention |-> TRUE]

\* updatedPayload (lines 98-102): the spread keeps every field of the payload;
\* attemptCount and lastError are overwritten. The instant is not used.
UpdatedPayload(payload, newAttemptCount, error, now) ==
  [payload EXCEPT !.attemptCount = newAttemptCount,
                  !.lastError = error.message]

\* manualPayload (lines 117-122): the spread keeps every field of the payload,
\* attemptCount included; lastError is overwritten and two fields are added.
ManualPayload(payload, error, now) ==
  [userRecord |-> payload.userRecord,
   originalEvent |-> payload.originalEvent,
   attemptCount |-> payload.attemptCount,
   firstAttemptTimestamp |-> payload.firstAttemptTimestamp,
   lastError |-> error.message,
   finalFailureTimestamp |-> now,
   requiresManualIntervention |-> TRUE]

\* handleRetryFailure (lines 83-153)
HandleRetryFailure(c, payload, error, maxRetryAttempts, sqsUp, cwUp, snsUp, now) ==
  LET newAttemptCount == NewAttemptCount(payload.attemptCount)
      updatedPayload == UpdatedPayload(payload, newAttemptCount, error, now)
      manualPayload == ManualPayload(payload, error, now)
      reschedule == SendRetryMessage(c, updatedPayload, RetryDelaySeconds(newAttemptCount),
                                     sqsUp, now)
      escalate ==
        Then(SendManualMessage(c, manualPayload, sqsUp, now),
        Then(PublishMetric("UserCreationManualInterventionRequired", 0, Null, cwUp),
             SendAdminAlert("User Creation Requires Manual Intervention",
                            maxRetryAttempts, error.message, payload.userRecord.user_id,
                            payload.firstAttemptTimestamp, snsUp)))
      body == Then(PublishMetric("UserCreationRetryFailure", payload.attemptCount,
                                 error.name, cwUp),
                   IF WithinRetryLimits(newAttemptCount, maxRetryAttempts)
                   THEN reschedule ELSE escalate)
  IN IF body.threw
     THEN Join(body, SendAdminAlert("Critical: Retry Failure Handling Error", 0,
                                    error.message, NoKey, 0, snsUp))
     ELSE body

\* processRetryRecord (lines 50-81)
ProcessRetryRecord(c, payload, table, maxRetryAttempts, dynamoUp, sqsUp, cwUp, snsUp, now) ==
  LET body ==
        Then(PutCommand(table, payload.userRecord, dynamoUp, payload.attemptCount),
        Then(PublishMetric("UserCreationRetrySuccess", payload.attemptCount, Null, cwUp),
             IF IsRecovery(payload.attemptCount)
             THEN SendAdminAlert("User Creation Retry Success", payload.attemptCount, Null,
                                 payload.userRecord.user_id, payload.firstAttemptTimestamp,
                                 snsUp)
             ELSE EmptyRun))
  IN IF body.threw
     THEN Join(body, HandleRetryFailure(c, payload, body.error, maxRetryAttempts,
                                        sqsUp, cwUp, snsUp, now))
     ELSE body

\* publishBatchMetrics (lines 177-199): one publish of RetryBatchSuccessful and
\* RetryBatchFailed, failure swallowed.
PublishBatchMetrics(successful, failed) ==
  [EmptyRun EXCEPT !.calls = <<Call("metric", "RetryBatch", successful, failed, Null, NoKey, 0)>>]

\* handler (lines 33-48) for a batch of one record: processRetryRecord settles
\* (fulfilled unless it threw), then the batch metrics are published.
RetryHandler(c, payload, table, maxRetryAttempts, dynamoUp, sqsUp, cwUp, snsUp, now) ==
  LET r == ProcessRetryRecord(c, payload, table, maxRetryAttempts, dynamoUp, sqsUp,
                              cwUp, snsUp, now)
      settled == [r EXCEPT !.threw = FALSE, !.error = NoError]
  IN Join(settled, IF r.threw THEN PublishBatchMetrics(0, 1) ELSE PublishBatchMetrics(1, 0))

\* A record body that is not JSON: the text of the body is all it has.
Malformed == [text |-> "not json"]

SyntaxError == [name |-> "SyntaxError", message |-> "Unexpected token"]

\* processRetryRecord that drops a body it cannot parse without any alert.
ProcessRecordBodySilent(c, body, table, maxRetryAttempts, dynamoUp, sqsUp, cwUp, snsUp, now) ==
  IF body = Malformed
  THEN EmptyRun
  ELSE ProcessRetryRecord(c, body, table, maxRetryAttempts, dynamoUp, sqsUp, cwUp, snsUp, now)

\* processRetryRecord on a record as delivered (lines 50-81, 83-153): for a
\* body that does not parse, JSON.parse throws at line 52, handleRetryFailure
\* parses it again at line 85 inside its try, and its catch sends the critical
\* alert with the first error's message.
ProcessRecordBody(c, body, table, maxRetryAttempts, dynamoUp, sqsUp, cwUp, snsUp, now) ==
  IF body = Malformed
  THEN SendAdminAlert("Critical: Retry Failure Handling Error", 0, SyntaxError.message,
                      NoKey, 0, snsUp)
  ELSE ProcessRetryRecord(c, body, table, maxRetryAttempts, dynamoUp, sqsUp, cwUp, snsUp, now)

\* A loop over the records that gives up at the first record whose run made a
\* failed client call: the records after it are not processed.
RECURSIVE SettleUntilFailure(_, _, _, _, _, _, _, _)
SettleUntilFailure(batch, in, table, maxRetryAttempts, cwUp, snsUp, clk, stopped) ==
  IF batch = {} THEN << >>
  ELSE LET m == CHOOSE x \in batch : TRUE
           r == IF stopped THEN EmptyRun
                ELSE ProcessRecordBody(m.chain, m.body, table, maxRetryAttempts,
                                       in[m].dynamoUp, in[m].sqsUp, cwUp, snsUp,
                                       clk[m.chain])
           failedCall == \E i \in 1..Len(r.calls) :
                           r.calls[i].what \in {"Error", "ConditionalCheckFailed", "failed"}
       IN (m :> r) @@ SettleUntilFailure(batch \ {m}, in, table \cup r.items,
                                          maxRetryAttempts, cwUp, snsUp, clk,
                                          stopped \/ failedCall)

RetryBatchAbortsOnFailure(batch, in, table, maxRetryAttempts, cwUp, snsUp, clk) ==
  LET results == SettleUntilFailure(batch, in, table, maxRetryAttempts, cwUp, snsUp, clk,
                                    FALSE)
      successful == Cardinality({m \in batch : ~results[m].threw})
      failed == Cardinality({m \in batch : results[m].threw})
  IN [m \in batch |->
        Join([results[m] EXCEPT !.threw = FALSE, !.error = NoError],
             PublishBatchMetrics(successful, failed))]

\* event.Records.map(record => processRetryRecord(record)) (line 37): every
\* record of the batch is processed; in[m] holds what the store and the queues
\* answer to record m. The records run concurrently; a record's conditional
\* put depends only on the items with its own key, so the runs are computed one
\* after the other, each on the table the earlier ones left.
RECURSIVE SettleAll(_, _, _, _, _, _, _)
SettleAll(batch, in, table, maxRetryAttempts, cwUp, snsUp, clk) ==
  IF batch = {} THEN << >>
  ELSE LET m == CHOOSE x \in batch : TRUE
           r == ProcessRecordBody(m.chain, m.body, table, maxRetryAttempts,
                                  in[m].dynamoUp, in[m].sqsUp, cwUp, snsUp, clk[m.chain])
       IN (m :> r) @@ SettleAll(batch \ {m}, in, table \cup r.items, maxRetryAttempts,
                                cwUp, snsUp, clk)

\* handler (lines 33-48) for a batch of records: Promise.allSettled waits for
\* every record, the fulfilled and the rejected are counted, and the batch
\* metrics are published. The result gives, per record, its run followed by
\* the batch metrics call.
RetryBatchHandler(batch, in, table, maxRetryAttempts, cwUp, snsUp, clk) ==
  LET results == SettleAll(batch, in, table, maxRetryAttempts, cwUp, snsUp, clk)
      successful == Cardinality({m \in batch : ~results[m].threw})
      failed == Cardinality({m \in batch : results[m].threw})
  IN [m \in batch |->
        Join([results[m] EXCEPT !.threw = FALSE, !.error = NoError],
             PublishBatchMetrics(successful, failed))]

\* ------------------------------------------------------------ actions
Init ==
  /\ MAX_RETRY_ATTEMPTS \in MinConfiguredAttempts..MaxConfiguredAttempts
  /\ processEnv \in Envs
  /\ usersTable = {}
  /\ retryQueue = {}
  /\ manualQueue = {}
  /\ returned = [l \in Lineages |-> "none"]
  /\ trigger = [l \in Lineages |-> NoEvent]
  /\ calls = [c \in Chains |-> <<>>]
  /\ clock = [c \in Chains |-> 1]
  /\ redeliveries = 0

\* Cognito invokes the post-confirmation trigger: invocation l runs the handler.
\* Identities are interchangeable, so the first invocation's is called sub-1.
PostConfirmation(l) ==
  /\ returned[l] = "none"
  /\ \A k \in Lineages : k < l => returned[k] # "none"
  /\ \E event \in Events, dynamoUp \in BOOLEAN, sqsUp \in BOOLEAN, cwUp \in BOOLEAN :
       /\ l = 1 => event.userName = "sub-1"
       /\ \E run \in {Handler(l, event, processEnv, usersTable, dynamoUp, sqsUp, cwUp,
                              clock[<<l, 0>>])} :
            /\ usersTable' = usersTable \cup run.items
            /\ retryQueue' = retryQueue \cup run.msgs
            /\ returned' = [returned EXCEPT ![l] =
                              IF run.threw THEN "raised"
                              ELSE IF HandlerReturn(event, processEnv) = event THEN "event"
                              ELSE "other"]
            /\ trigger' = [trigger EXCEPT ![l] = event]
            /\ calls' = [calls EXCEPT ![<<l, 0>>] = @ \o run.calls]
            /\ clock' = [clock EXCEPT ![<<l, 0>>] = @ + 1]
  /\ UNCHANGED <<MAX_RETRY_ATTEMPTS, processEnv, manualQueue, redeliveries>>

\* The queue delivers message m to the retry processor, which runs as part of
\* chain c and returns. The message is deleted after the run, unless the queue
\* keeps it to deliver it again (keep).
Deliver(m, c, keep) ==
  \E dynamoUp \in BOOLEAN, sqsUp \in BOOLEAN, cwUp \in BOOLEAN, snsUp \in BOOLEAN :
    \E run \in {RetryHandler(c, m.body, usersTable, MAX_RETRY_ATTEMPTS, dynamoUp, sqsUp,
                             cwUp, snsUp, clock[m.chain])} :
       /\ usersTable' = usersTable \cup run.items
       /\ retryQueue' = (IF keep THEN retryQueue ELSE retryQueue \ {m}) \cup run.msgs
       /\ manualQueue' = manualQueue \cup run.manual
       /\ calls' = [calls EXCEPT ![c] = calls[m.chain] \o run.calls]
       /\ clock' = [clock EXCEPT ![c] = clock[m.chain] + 1]

RetryProcessor ==
  /\ \E m \in retryQueue : Deliver(m, m.chain, FALSE)
  /\ UNCHANGED <<MAX_RETRY_ATTEMPTS, processEnv, returned, trigger, redeliveries>>

\* At-least-once delivery: a message is delivered and processed, and stays on
\* the queue to be delivered again.
DuplicateDelivery ==
  /\ redeliveries < MaxRedeliveries
  /\ \E m \in retryQueue : Deliver(m, <<m.chain[1], redeliveries + 1>>, TRUE)
  /\ redeliveries' = redeliveries + 1
  /\ UNCHANGED <<MAX_RETRY_ATTEMPTS, processEnv, returned, trigger>>

Next ==
  \/ \E l \in Lineages : PostConfirmation(l)
  \/ RetryProcessor

\* Every message is delivered once.
Spec == Init /\ [][Next]_vars

NextAtLeastOnce ==
  \/ PostConfirmation(1)
  \/ RetryProcessor
  \/ DuplicateDelivery

\* One trigger invocation whose retry messages may be delivered more than once.
SpecAtLeastOnce == Init /\ [][NextAtLeastOnce]_vars

\* A producer other than the two Lambdas puts a message on the retry queue
\* whose body is not JSON. Its number is the chain's next free one.
ForeignMessage ==
  /\ \E c \in ForeignChains :
       /\ calls[c] = << >> /\ clock[c] = 1
       /\ \A k \in ForeignChains : k[2] < c[2] => clock[k] > 1
       /\ retryQueue' = retryQueue \cup {[chain |-> c, id |-> 1, body |-> Malformed,
                                           DelaySeconds |-> 0]}
       /\ clock' = [clock EXCEPT ![c] = 2]
  /\ UNCHANGED <<MAX_RETRY_ATTEMPTS, processEnv, usersTable, manualQueue, returned, trigger,
                 calls, redeliveries>>

\* What the store and the queues answer to one record of a batch.
RecordInputs == [dynamoUp : BOOLEAN, sqsUp : BOOLEAN]

\* The event source invokes the retry processor with a batch of up to
\* BatchSize messages of the retry queue; the handler returns and the messages
\* of the batch are deleted.
RetryBatch ==
  /\ \E batch \in SUBSET retryQueue :
       /\ batch # {}
       /\ Cardinality(batch) <= BatchSize
       /\ \E in \in [batch -> RecordInputs] :
            \E runs \in {RetryBatchHandler(batch, in, usersTable, MAX_RETRY_ATTEMPTS,
                                            cwUp, snsUp, clock) :
                            cwUp \in BOOLEAN, snsUp \in BOOLEAN} :
              /\ usersTable' = usersTable \cup UNION {runs[m].items : m \in batch}
              /\ retryQueue' = (retryQueue \ batch) \cup UNION {runs[m].msgs : m \in batch}
              /\ manualQueue' = manualQueue \cup UNION {runs[m].manual : m \in batch}
              /\ calls' = [c \in Chains |->
                             IF \E m \in batch : m.chain = c
                             THEN calls[c] \o runs[CHOOSE m \in batch : m.chain = c].calls
                             ELSE calls[c]]
              /\ clock' = [c \in Chains |->
                             IF \E m \in batch : m.chain = c THEN clock[c] + 1 ELSE clock[c]]
  /\ UNCHANGED <<MAX_RETRY_ATTEMPTS, processEnv, returned, trigger, redeliveries>>

\* The prod deployment: the stack sets both variables of the post-confirmation
\* Lambda and MAX_RETRY_ATTEMPTS = 3; only there batches hold several records.
InitBatch ==
  /\ MAX_RETRY_ATTEMPTS = ProdRetryAttempts
  /\ processEnv = [USERS_TABLE_NAME |-> TRUE, PRIMARY_RETRY_QUEUE_URL |-> TRUE]
  /\ usersTable = {}
  /\ retryQueue = {}
  /\ manualQueue = {}
  /\ returned = [l \in Lineages |-> "none"]
  /\ trigger = [l \in Lineages |-> NoEvent]
  /\ calls = [c \in Chains |-> <<>>]
  /\ clock = [c \in Chains |-> 1]
  /\ redeliveries = 0

NextBatch ==
  \/ \E l \in Lineages : PostConfirmation(l)
  \/ ForeignMessage
  \/ RetryBatch

\* The retry processor is invoked with batches; every message is delivered once.
SpecBatch == InitBatch /\ [][NextBatch]_vars

\* --------------------------------------------------------- the stack
\* props.environment of the deployments modelled.
Environments == {"dev", "test", "staging", "prod"}

\* A resource of the synthesized template: its type and its construct id.
Resource(type, id) == [type |-> type, id |-> id]

\* The four alarms of createMonitoringAndAlarms (lines 271-348).
MonitoringAlarms ==
  {Resource("AWS::CloudWatch::Alarm", id) :
     id \in {"ManualInterventionQueueDepthAlarm", "RetryQueueDepthAlarm",
             "RetryLambdaErrorAlarm", "UserCreationFailureAlarm"}}

\* Monitoring that creates the alarms whatever the environment.
AlarmsInEveryEnvironment(environmentName) == MonitoringAlarms

\* createMonitoringAndAlarms (lines 261-349): returns before creating any
\* alarm unless the environment name is exactly 'prod'.
CreateMonitoringAndAlarms(environmentName) ==
  IF environmentName # "prod" THEN {} ELSE MonitoringAlarms

CreateAdminAlertTopic == {Resource("AWS::SNS::Topic", "AdminAlertTopic")}

\* createPrimaryRetryQueue (lines 159-176): the queue and its dead letter queue.
CreatePrimaryRetryQueue ==
  {Resource("AWS::SQS::Queue", "PrimaryRetryDLQ"),
   Resource("AWS::SQS::Queue", "PrimaryRetryQueue")}

CreateManualInterventionQueue == {Resource("AWS::SQS::Queue", "ManualInterventionQueue")}

\* The environment the stack gives the retry processor (lines 196-203).
RetryProcessorEnvironment(environment) ==
  [NODE_ENV |-> environment,
   MAX_RETRY_ATTEMPTS |-> IF environment = "prod" THEN ProdRetryAttempts
                          ELSE MinConfiguredAttempts]

CreateRetryProcessorLambda == {Resource("AWS::Lambda::Function", "RetryProcessorLambda")}

\* The environment the stack gives the post-confirmation Lambda (lines 92-96):
\* the table name and the queue URL are set.
PostConfirmationEnvironment(environment) ==
  [USERS_TABLE_NAME |-> TRUE, PRIMARY_RETRY_QUEUE_URL |-> TRUE, NODE_ENV |-> environment]

\* createCognitoResources (lines 63-74): the post-confirmation Lambda and the
\* user pool it is the trigger of.
CreateCognitoResources ==
  {Resource("AWS::Lambda::Function", "PostConfirmationLambda"),
   Resource("AWS::Cognito::UserPool", "UserPool")}

\* constructor (lines 26-61): the resources of the stack for an environment.
CognitoStack(environment) ==
  CreateAdminAlertTopic \cup CreatePrimaryRetryQueue \cup CreateManualInterventionQueue
    \cup CreateRetryProcessorLambda \cup CreateCognitoResources
    \cup CreateMonitoringAndAlarms(environment)

\* The stack has been deployed for one of the environments: both Lambdas run
\* with the environment variables the stack gave them.
InitDeploy ==
  /\ \E environment \in Environments :
       /\ processEnv = PostConfirmationEnvironment(environment)
       /\ MAX_RETRY_ATTEMPTS = RetryProcessorEnvironment(environment).MAX_RETRY_ATTEMPTS
  /\ usersTable = {}
  /\ retryQueue = {}
  /\ manualQueue = {}
  /\ returned = [l \in Lineages |-> "none"]
  /\ trigger = [l \in Lineages |-> NoEvent]
  /\ calls = [c \in Chains |-> <<>>]
  /\ clock = [c \in Chains |-> 1]
  /\ redeliveries = 0

\* The pipeline as deployed by the stack.
SpecDeploy == InitDeploy /\ [][Next]_vars

\* The pipeline as deployed by the stack, one trigger invocation, with retry
\* messages that may be delivered more than once.
SpecDeployAtLeastOnce == InitDeploy /\ [][NextAtLeastOnce]_vars

\* ------------------------------------------------- Lambda timeouts
\* What the table holds after a PutCommand whose response never arrived: the
\* request may or may not have been applied, under its condition.
AfterUnansweredPut(table, item) ==
  {table} \cup (IF ConditionFailed(table, item) THEN {} ELSE {table \cup {item}})

\* The post-confirmation handler awaits dynamodb.send(PutCommand) (lines 68-80)
\* on a client built with no request timeout, and the store does not answer
\* within the function's timeout (createDefaultLambdaConfig: 5 seconds). The
\* runtime ends the invocation: no catch block runs, nothing is enqueued, and
\* Cognito receives a timeout error in place of the event.
PostConfirmationTimesOut(l) ==
  /\ returned[l] = "none"
  /\ \A k \in Lineages : k < l => returned[k] # "none"
  /\ processEnv.USERS_TABLE_NAME
  /\ \E event \in Events :
       /\ event.userAttributes.defined
       /\ l = 1 => event.userName = "sub-1"
       /\ LET userRecord == BuildRecord(event, RandomUUID(l, 1), clock[<<l, 0>>])
          IN /\ usersTable' \in AfterUnansweredPut(usersTable, userRecord)
             /\ calls' = [calls EXCEPT ![<<l, 0>>] =
                            @ \o <<Call("put", "TimedOut", 0, 0, Null, userRecord.user_id, 0)>>]
       /\ trigger' = [trigger EXCEPT ![l] = event]
  /\ returned' = [returned EXCEPT ![l] = "timeout"]
  /\ clock' = [clock EXCEPT ![<<l, 0>>] = @ + 1]
  /\ UNCHANGED <<MAX_RETRY_ATTEMPTS, processEnv, retryQueue, manualQueue, redeliveries>>

\* The retry processor awaits dynamodb.send(PutCommand) (lines 56-60) on a
\* client built with no request timeout (lines 8-13), and the store does not
\* answer within the function's timeout (1 or 2 minutes). The runtime ends the
\* invocation: handleRetryFailure does not run, and the message, not deleted,
\* becomes visible again on the queue with its attemptCount unchanged.
RetryProcessorTimesOut ==
  /\ redeliveries < MaxRedeliveries
  /\ \E m \in retryQueue :
       /\ m.body # Malformed
       /\ usersTable' \in AfterUnansweredPut(usersTable, m.body.userRecord)
       /\ calls' = [calls EXCEPT ![m.chain] =
                      @ \o <<Call("put", "TimedOut", m.body.attemptCount, 0, Null,
                                  m.body.userRecord.user_id, 0)>>]
       /\ clock' = [clock EXCEPT ![m.chain] = @ + 1]
  /\ redeliveries' = redeliveries + 1
  /\ UNCHANGED <<MAX_RETRY_ATTEMPTS, processEnv, retryQueue, manualQueue, returned, trigger>>

NextTimeout ==
  \/ \E l \in Lineages : PostConfirmation(l)
  \/ RetryProcessor
  \/ \E l \in Lineages : PostConfirmationTimesOut(l)
  \/ RetryProcessorTimesOut

\* A deployed stack whose store may leave a write unanswered.
SpecTimeout == InitDeploy /\ [][NextTimeout]_vars

\* ------------------------------------------------------- properties
\* The calls made along the chain of trigger invocation l.
Log(l) == calls[<<l, 0>>]

Indices(log) == 1..Len(log)

Count(log, op, what) ==
  Cardinality({i \in Indices(log) : log[i].op = op /\ log[i].what = what})

CountOp(log, op) == Cardinality({i \in Indices(log) : log[i].op = op})

\* Write attempts of the retry processor (attempt count >= 1) and those that failed.
WorkerAttempts(log) ==
  Cardinality({i \in Indices(log) : log[i].op = "put" /\ log[i].n >= 1})

WorkerFailures(log) ==
  Cardinality({i \in Indices(log) :
                 log[i].op = "put" /\ log[i].n >= 1 /\ log[i].what # "Inserted"})

RecordsOf(l) == {item \in usersTable : item.user_id[1] = l}

HandlerWriteFailed(log) ==
  Len(log) >= 1 /\ log[1].op = "put" /\ log[1].n = 0 /\ log[1].what # "Inserted"

HandlerWriteSucceeded(log) ==
  Len(log) >= 1 /\ log[1].op = "put" /\ log[1].n = 0 /\ log[1].what = "Inserted"

\* C1: whatever the store write, the retry-queue enqueue and the metric
\* publishes do, an invocation of the post-confirmation handler returns the
\* event to its caller and never raises.
C1_AlwaysAccept == \A l \in Lineages : returned[l] # "raised"

\* An invocation returned the event although its store write and its enqueue
\* on the retry queue both failed.
C1_Witness ==
  \E l \in Lineages :
    /\ returned[l] = "event"
    /\ Count(Log(l), "put", "Error") = 1
    /\ Count(Log(l), "retry_send", "failed") = 1
    /\ Count(Log(l), "metric", "UserCreationRetryQueueSendFailure") = 1

\* C2: the table never holds two items with one key, and a write that finds
\* its key present is reported as AlreadyExists and is not handled as a failure
\* (no failure metric is published for it).
C2_Idempotent ==
  /\ \A a, b \in usersTable : a.PK = b.PK => a = b
  /\ \A c \in Chains : \A i \in Indices(calls[c]) :
       ~(calls[c][i].op = "metric" /\ calls[c][i].e = "ConditionalCheckFailedException")

\* C3: in the retry processor a put that finds the key present ends the
\* Envelope as Succeeded: the call that follows it is the retry-success metric,
\* not the failure handling.
C3_AlreadyExistsSucceeds ==
  \A c \in Chains : \A i \in Indices(calls[c]) :
    (calls[c][i].op = "put" /\ calls[c][i].what = "ConditionalCheckFailed"
       /\ calls[c][i].n >= 1)
    => /\ i < Len(calls[c])
       /\ calls[c][i + 1].op = "metric"
       /\ calls[c][i + 1].what = "UserCreationRetrySuccess"
       /\ \A j \in Indices(calls[c]) :
            j > i => calls[c][j].op \notin {"retry_send", "manual_send"}

\* C4: the table holds at most one Record per identity (Cognito sub), however
\* often the trigger is delivered for it.
C4_OneRecordPerIdentity ==
  \A a, b \in usersTable : a.cognito_sub = b.cognito_sub => a = b

\* C5: along a lineage the retry processor makes at most MAX_RETRY_ATTEMPTS
\* write attempts, no Envelope is re-scheduled with a higher attempt count, the
\* Envelope is sent to the manual intervention queue at most once and only
\* after exactly MAX_RETRY_ATTEMPTS failed attempts, and once all
\* MAX_RETRY_ATTEMPTS attempts have failed it has been sent there exactly once.
C5_BoundedRetries ==
  \A l \in Lineages :
    LET log == Log(l) IN
    /\ WorkerAttempts(log) <= MAX_RETRY_ATTEMPTS
    /\ \A i \in Indices(log) :
         log[i].op = "retry_send" => log[i].n <= MAX_RETRY_ATTEMPTS
    /\ CountOp(log, "manual_send") <= 1
    /\ \A i \in Indices(log) :
         log[i].op = "manual_send"
         => WorkerFailures(SubSeq(log, 1, i)) = MAX_RETRY_ATTEMPTS
    /\ WorkerFailures(log) = MAX_RETRY_ATTEMPTS => CountOp(log, "manual_send") = 1
    /\ Cardinality({m \in manualQueue : m.chain[1] = l}) <= 1
    /\ \A m \in retryQueue : m.chain[1] = l => m.body.attemptCount <= MAX_RETRY_ATTEMPTS

\* With three attempts configured, a lineage failed three retry attempts and
\* its Envelope is in the manual intervention queue.
C5_Witness ==
  \E l \in Lineages :
    /\ MAX_RETRY_ATTEMPTS = 3
    /\ WorkerFailures(Log(l)) = 3
    /\ WorkerAttempts(Log(l)) = 3
    /\ \E m \in manualQueue : m.chain = <<l, 0>> /\ m.body.attemptCount = 3

\* The delay schedule of the documentation: 30, 60, 120, then 300 seconds.
DocumentedDelay(attemptCount) ==
  CASE attemptCount = 1 -> 30
    [] attemptCount = 2 -> 60
    [] attemptCount = 3 -> 120
    [] OTHER -> 300

\* C6: an Envelope is enqueued on the retry queue with the delay the schedule
\* gives for the attempt count it carries: 30, 60, 120, 300 seconds.
C6_DelaySchedule ==
  \A l \in Lineages : \A i \in Indices(Log(l)) :
    (Log(l)[i].op = "retry_send" /\ Log(l)[i].what = "ok")
    => Log(l)[i].d = DocumentedDelay(Log(l)[i].n)

\* C7: along a lineage the enqueue delay never decreases as the attempt count
\* grows, and it never exceeds 300 seconds, the initial enqueue included.
C7_BackoffMonotoneCapped ==
  \A l \in Lineages :
    LET log == Log(l) IN
    \A i, j \in Indices(log) :
      (log[i].op = "retry_send" /\ log[j].op = "retry_send")
      => /\ log[i].d <= 300
         /\ log[i].n <= log[j].n => log[i].d <= log[j].d
         /\ i < j => log[i].n < log[j].n

\* A lineage was enqueued for attempts 1 to 4, the last at the cap.
C7_Witness ==
  \E l \in Lineages :
    LET log == Log(l) IN
    /\ \E i \in Indices(log) : log[i].op = "retry_send" /\ log[i].n = 1 /\ log[i].d = 30
    /\ \E i \in Indices(log) : log[i].op = "retry_send" /\ log[i].n = 3 /\ log[i].d < 300
    /\ \E i \in Indices(log) : log[i].op = "retry_send" /\ log[i].n = 4 /\ log[i].d = 300

RecoverySubject == "User Creation Retry Success"

C9_ImmediateSuccess ==
  \A l \in Lineages :
    HandlerWriteSucceeded(Log(l))
    => /\ Cardinality(RecordsOf(l)) = 1
       /\ Count(Log(l), "metric", "UserCreationSuccess") = 1
       /\ CountOp(Log(l), "retry_send") = 0
       /\ CountOp(Log(l), "manual_send") = 0
       /\ \A m \in retryQueue \cup manualQueue : m.chain[1] # l

\* An invocation returned the event after its put inserted the Record of the
\* identity it was called for.
C9_Witness ==
  \E l \in Lineages :
    /\ HandlerWriteSucceeded(Log(l))
    /\ returned[l] = "event"
    /\ \E item \in usersTable : item.user_id = <<l, 1>> /\ item.cognito_sub = trigger[l].userName

\* C10: with MAX_RETRY_ATTEMPTS = 3, a lineage whose handler write failed and
\* whose retry write succeeds on the third retry attempt ends Succeeded with
\* one recovery notification, 1 immediate-failure, 2 retry-failure and 1
\* retry-success metric, no manual-intervention metric and no escalation.
SucceededOnAttempt(log, n) ==
  \E i \in Indices(log) : log[i].op = "put" /\ log[i].what = "Inserted" /\ log[i].n = n

C10_FailTwiceThenSucceed ==
  \A l \in Lineages :
    (MAX_RETRY_ATTEMPTS = 3 /\ HandlerWriteFailed(Log(l)) /\ SucceededOnAttempt(Log(l), 3))
    => /\ Cardinality(RecordsOf(l)) = 1
       /\ \A m \in retryQueue \cup manualQueue : m.chain[1] # l
       /\ Count(Log(l), "alert", RecoverySubject) = 1
       /\ Count(Log(l), "metric", "UserCreationImmediateFailure") = 1
       /\ Count(Log(l), "metric", "UserCreationRetryFailure") = 2
       /\ Count(Log(l), "metric", "UserCreationRetrySuccess") = 1
       /\ Count(Log(l), "metric", "UserCreationManualInterventionRequired") = 0
       /\ CountOp(Log(l), "manual_send") = 0
       /\ WorkerFailures(Log(l)) = 2

\* Such a lineage: handler write failed, third retry attempt inserted.
C10_Witness ==
  \E l \in Lineages :
    /\ MAX_RETRY_ATTEMPTS = 3
    /\ HandlerWriteFailed(Log(l))
    /\ SucceededOnAttempt(Log(l), 3)
    /\ RecordsOf(l) # {}

ManualSubject == "User Creation Requires Manual Intervention"

\* The messages of lineage l on the manual intervention queue.
EscalatedOf(l) == {m \in manualQueue : m.chain = <<l, 0>>}

\* The time of the handler run that first failed and enqueued the Envelope.
OriginalFailureTime(log) ==
  log[CHOOSE i \in Indices(log) : log[i].op = "retry_send" /\ log[i].n = 1].ts

\* The message of the retry processor's last failed write.
LastStoreError == "store unavailable"

\* C11: with MAX_RETRY_ATTEMPTS = 3, when the store has failed the handler's
\* write and all three retry attempts and the manual intervention queue took
\* the message, the Envelope is on that queue with requiresManualIntervention
\* set, exactly one manual-intervention metric has been published and exactly
\* one manual-intervention alert has been sent, which names the Record's key,
\* the first-attempt timestamp and the last error.
C11_ExhaustedEscalates ==
  \A l \in Lineages :
    LET log == Log(l) IN
    (/\ MAX_RETRY_ATTEMPTS = 3
     /\ HandlerWriteFailed(log)
     /\ WorkerFailures(log) = 3
     /\ Count(log, "manual_send", "failed") = 0)
    => /\ Cardinality(EscalatedOf(l)) = 1
       /\ \A m \in EscalatedOf(l) :
            /\ m.body.requiresManualIntervention = TRUE
            /\ m.body.userRecord.user_id = <<l, 1>>
            /\ m.body.lastError = LastStoreError
       /\ RecordsOf(l) = {}
       /\ Count(log, "metric", "UserCreationManualInterventionRequired") = 1
       /\ Count(log, "alert", ManualSubject) = 1
       /\ CountOp(log, "alert") = 1
       /\ \A i \in Indices(log) :
            log[i].op = "alert"
            => /\ log[i].key = <<l, 1>>
               /\ log[i].ts = OriginalFailureTime(log)
               /\ log[i].e = LastStoreError
               /\ log[i].n = 3

\* Such a lineage: three attempts configured, the handler's write and three
\* retry writes failed, and the Envelope is on the manual intervention queue.
C11_Witness ==
  \E l \in Lineages :
    /\ MAX_RETRY_ATTEMPTS = 3
    /\ HandlerWriteFailed(Log(l))
    /\ WorkerFailures(Log(l)) = 3
    /\ \E m \in manualQueue : m.chain = <<l, 0>> /\ m.body.requiresManualIntervention
    /\ Count(Log(l), "alert", ManualSubject) = 1

\* The handler of lineage l put an Envelope on the retry queue.
EnqueuedForRetry(l) ==
  \E i \in Indices(Log(l)) :
    Log(l)[i].op = "retry_send" /\ Log(l)[i].what = "ok" /\ Log(l)[i].n = 1

Succeeded(l) == RecordsOf(l) # {}

Escalated(l) == EscalatedOf(l) # {}

InFlight(l) == \E m \in retryQueue : m.chain = <<l, 0>>

\* C12: a lineage whose Envelope was enqueued for retry is never dropped:
\* at every moment its Envelope is still on the retry queue, or its Record is
\* in the table (Succeeded), or its Envelope is on the manual intervention
\* queue (Escalated). With every message delivered, this is what makes the
\* lineage end Succeeded or Escalated.
C12_RunsToTerminal ==
  \A l \in Lineages : EnqueuedForRetry(l) => (InFlight(l) \/ Succeeded(l) \/ Escalated(l))

\* The handler of lineage l ran and did not insert the Record.
HandlerFailed(l) == returned[l] # "none" /\ ~HandlerWriteSucceeded(Log(l))

\* The failure metrics of the post-confirmation Lambda.
HandlerFailureMetrics == {"UserCreationImmediateFailure", "UserCreationUnexpectedFailure"}

\* The handler's sends to the retry queue: those with attempt count 1.
InitialEnqueues(log) ==
  {i \in Indices(log) : log[i].op = "retry_send" /\ log[i].n = 1}

\* C13: when the handler fails to write the Record (store error, unexpected
\* exception or missing USERS_TABLE_NAME) and the retry queue is configured and
\* accepts messages, the handler has published a failure metric that carries
\* an error classification and has enqueued exactly one Envelope with
\* attemptCount 1 and a delay of 30 seconds.
C13_FailureMetricAndEnqueue ==
  \A l \in Lineages :
    LET log == Log(l) IN
    (/\ HandlerFailed(l)
     /\ processEnv.PRIMARY_RETRY_QUEUE_URL
     /\ Count(log, "retry_send", "failed") = 0)
    => /\ \E i \in Indices(log) :
            /\ log[i].op = "metric"
            /\ log[i].what \in HandlerFailureMetrics
            /\ log[i].e # Null
       /\ Cardinality(InitialEnqueues(log)) = 1
       /\ \A i \in InitialEnqueues(log) :
            log[i].what = "ok" /\ log[i].d = InitialDelaySeconds

\* The handler of lineage l put no Envelope on the retry queue.
HandOffLost(l) ==
  \A i \in InitialEnqueues(Log(l)) : Log(l)[i].what # "ok"

\* C14: when the handler fails to write the Record and no Envelope reaches the
\* retry queue (the send rejects, PRIMARY_RETRY_QUEUE_URL is not set, or the
\* Envelope cannot be built), the handler has published the critical metric
\* UserCreationRetryQueueSendFailure and has returned the event.
C14_LostHandOffMetric ==
  \A l \in Lineages :
    (HandlerFailed(l) /\ HandOffLost(l))
    => /\ returned[l] = "event"
       /\ Count(Log(l), "metric", "UserCreationRetryQueueSendFailure") >= 1

CriticalSubject == "Critical: Retry Failure Handling Error"

\* Call i of the log is the batch summary of a run whose record settled
\* fulfilled: processRetryRecord did not reject.
SettledFulfilled(log, i) ==
  /\ i <= Len(log)
  /\ log[i].op = "metric" /\ log[i].what = "RetryBatch"
  /\ log[i].n = 1 /\ log[i].d = 0

\* C15: when the retry processor's send of an exhausted Envelope to the manual
\* intervention queue fails, the next thing it does is send the critical admin
\* alert, naming the store error it was handling, and the record's processing
\* then settles without rejecting.
C15_EscalationFailureAlert ==
  \A l \in Lineages :
    LET log == Log(l) IN
    \A i \in Indices(log) :
      (log[i].op = "manual_send" /\ log[i].what = "failed")
      => /\ i + 1 <= Len(log)
         /\ log[i + 1].op = "alert"
         /\ log[i + 1].what = CriticalSubject
         /\ log[i + 1].e = log[i].e
         /\ SettledFulfilled(log, i + 2)
         /\ Escalated(l) = FALSE
         /\ Count(log, "metric", "UserCreationManualInterventionRequired") = 0
         /\ Count(log, "alert", ManualSubject) = 0

\* A lineage whose attempts were exhausted, whose send to the manual
\* intervention queue failed and whose critical alert was sent.
C15_Witness ==
  \E l \in Lineages :
    /\ WorkerFailures(Log(l)) = MAX_RETRY_ATTEMPTS
    /\ Count(Log(l), "manual_send", "failed") = 1
    /\ Count(Log(l), "alert", CriticalSubject) = 1
    /\ ~Escalated(l)

\* C16: when the retry processor's re-enqueue of the incremented Envelope on
\* the retry queue fails, the failure is not retried (no further send of that
\* Envelope) and it is not reported with the critical admin alert, which is
\* sent only after a failed send to the manual intervention queue.
C16_SchedulingFailureDistinct ==
  \A l \in Lineages :
    LET log == Log(l) IN
    /\ \A i \in Indices(log) :
         (log[i].op = "retry_send" /\ log[i].what = "failed" /\ log[i].n >= 2)
         => /\ \A j \in Indices(log) : j > i => log[j].op # "retry_send"
            /\ \A j \in Indices(log) :
                 j > i => ~(log[j].op = "alert" /\ log[j].what = CriticalSubject)
    /\ \A j \in Indices(log) :
         (log[j].op = "alert" /\ log[j].what = CriticalSubject)
         => (j > 1 /\ log[j - 1].op = "manual_send" /\ log[j - 1].what = "failed")

\* What a run does to the main flow: whether it raised, what it inserted, what
\* it enqueued on either queue, and its calls to the store and the queues.
RECURSIVE MainCalls(_)
MainCalls(cs) ==
  IF cs = <<>> THEN <<>>
  ELSE IF Head(cs).op \in {"metric", "alert"} THEN MainCalls(Tail(cs))
  ELSE <<Head(cs)>> \o MainCalls(Tail(cs))

MainFlow(run) == <<run.threw, run.items, run.msgs, run.manual, MainCalls(run.calls)>>

\* C17: in every reachable state, the run of the post-confirmation handler
\* for the next trigger invocation and the run of the retry processor on any
\* message of the retry queue have the same main flow (return or raise, items
\* inserted, messages enqueued on the retry and the manual intervention
\* queue, store and queue calls) whether CloudWatch and SNS accept or reject
\* the publishes of that run.
C17_SinkFailuresInvisible ==
  /\ \A l \in Lineages :
       (returned[l] = "none" /\ \A k \in Lineages : k < l => returned[k] # "none")
       => \A event \in Events, dynamoUp \in BOOLEAN, sqsUp \in BOOLEAN :
            MainFlow(Handler(l, event, processEnv, usersTable, dynamoUp, sqsUp, TRUE,
                             clock[<<l, 0>>]))
            = MainFlow(Handler(l, event, processEnv, usersTable, dynamoUp, sqsUp, FALSE,
                               clock[<<l, 0>>]))
  /\ \A m \in retryQueue, dynamoUp \in BOOLEAN, sqsUp \in BOOLEAN :
       LET sinksUp == MainFlow(RetryHandler(m.chain, m.body, usersTable,
                                            MAX_RETRY_ATTEMPTS, dynamoUp, sqsUp, TRUE, TRUE,
                                            clock[m.chain]))
       IN \A cwUp \in BOOLEAN, snsUp \in BOOLEAN :
            (~cwUp \/ ~snsUp)
            => MainFlow(RetryHandler(m.chain, m.body, usersTable, MAX_RETRY_ATTEMPTS,
                                     dynamoUp, sqsUp, cwUp, snsUp, clock[m.chain]))
               = sinksUp

\* A state in which the runs compared publish metrics and send alerts on both
\* outcomes of the store write: a trigger invocation is still to come, and an
\* Envelope on its last attempt is waiting on the retry queue, so that a
\* success sends the recovery alert and a failure the manual-intervention one.
C17_Witness ==
  /\ \E l \in Lineages : returned[l] = "none"
  /\ \E m \in retryQueue :
       /\ m.body.attemptCount = MAX_RETRY_ATTEMPTS
       /\ IsRecovery(m.body.attemptCount)
       /\ Count(calls[m.chain], "metric", "UserCreationRetryFailure") >= 1

\* The messages a step took off the retry queue: the batch of a retry
\* processor invocation.
Delivered == retryQueue \ retryQueue'

\* The run of processRetryRecord on message m alone, in the state before the
\* step, when the store and the queues answer as given.
Alone(m, dynamoUp, sqsUp) ==
  ProcessRecordBody(m.chain, m.body, usersTable, MAX_RETRY_ATTEMPTS, dynamoUp, sqsUp,
                    TRUE, TRUE, clock[m.chain])

\* C18: in every invocation of the retry processor with a batch, each record
\* of the batch is processed exactly as it would be alone, whatever happens to
\* the other records: the invocation adds to the record's chain the calls of
\* that run (its write attempt, then its success report, re-schedule or
\* escalation), the run's item and messages are in the table and on the queues
\* afterwards, and the batch metrics call comes after the record's calls and
\* counts every record of the batch.
BatchIsolationStep ==
  \A m \in Delivered :
    \E dynamoUp \in BOOLEAN, sqsUp \in BOOLEAN, successful \in 0..Cardinality(Delivered) :
      LET alone == Alone(m, dynamoUp, sqsUp)
          failed == Cardinality(Delivered) - successful
      IN /\ calls'[m.chain]
              = calls[m.chain] \o alone.calls \o PublishBatchMetrics(successful, failed).calls
         /\ alone.items \subseteq usersTable'
         /\ alone.msgs \subseteq retryQueue'
         /\ alone.manual \subseteq manualQueue'

C18_BatchIsolation == [][BatchIsolationStep]_vars

\* A batch of two Envelopes and a malformed record was processed: the store
\* failed one Envelope's write, the other Envelope's Record was inserted, and
\* the malformed record got its critical alert; all three were counted.
C18_Witness ==
  \E l, k \in Lineages :
    /\ l # k
    /\ Len(Log(l)) >= 1 /\ Len(Log(k)) >= 1
    /\ Log(l)[Len(Log(l))].what = "RetryBatch" /\ Log(l)[Len(Log(l))].n = 3
    /\ Log(k)[Len(Log(k))].what = "RetryBatch" /\ Log(k)[Len(Log(k))].n = 3
    /\ WorkerFailures(Log(l)) = 1 /\ InFlight(l)
    /\ WorkerAttempts(Log(k)) = 1 /\ Succeeded(k)
    /\ \E c \in ForeignChains :
         /\ Count(calls[c], "alert", CriticalSubject) = 1
         /\ Len(calls[c]) = 2 /\ calls[c][2].what = "RetryBatch" /\ calls[c][2].n = 3

\* C19: in a deployment whose NODE_ENV is not 'prod' neither Lambda publishes
\* a metric or sends an admin alert.
C19_NoTelemetryOutsideProd ==
  processEnv.NODE_ENV # "prod"
  => \A c \in Chains : \A i \in Indices(calls[c]) : calls[c][i].op \notin {"metric", "alert"}

ResourceCount(stack, type) == Cardinality({r \in stack : r.type = type})

PutsOf(c, k) == {i \in Indices(calls[c]) : calls[c][i].op = "put" /\ calls[c][i].key = k}

\* The puts, over all chains, that inserted an item under record key k.
InsertsOf(k) ==
  UNION {{<<c, i>> : i \in {j \in PutsOf(c, k) : calls[c][j].what = "Inserted"}} :
           c \in Chains}

\* The record keys a put was attempted with.
KeysWritten ==
  UNION {{calls[c][i].key : i \in {j \in Indices(calls[c]) : calls[c][j].op = "put"}} :
           c \in Chains}

\* C21: however the write attempts that carry one record key interleave (the
\* handler's put and the retry processor's, or the retry processor's puts of
\* two deliveries of one message), the table never holds two items with that
\* key, at most one of the attempts inserted, and the item is in the table
\* exactly when one did. The attempts are ordered by the store's condition
\* alone; no lock is taken.
C21_OneInsertPerKey ==
  /\ \A a, b \in usersTable : a.PK = b.PK => a = b
  /\ \A k \in KeysWritten :
       /\ Cardinality(InsertsOf(k)) <= 1
       /\ (InsertsOf(k) # {}) <=> (\E item \in usersTable : item.user_id = k)

\* A message was delivered twice: both deliveries attempted the put with the
\* same key, one inserted the item, the other failed its condition, and the
\* table holds the one item.
C21_Witness ==
  \E k \in KeysWritten :
    /\ Cardinality(InsertsOf(k)) = 1
    /\ \E c \in Chains : \E i \in PutsOf(c, k) : calls[c][i].what = "ConditionalCheckFailed"
    /\ Cardinality({item \in usersTable : item.user_id = k}) = 1

\* The calls a step added to chain c.
NewCalls(c) == {i \in 1..Len(calls'[c]) : i > Len(calls[c])}

\* C22: in every step of either Lambda, every item of the table stays in it
\* unchanged, an item is added only under a key no item had, and a put reports
\* an insert only when no item had its key before the step and the item is in
\* the table after it.
FrameStep ==
  /\ usersTable \subseteq usersTable'
  /\ \A a \in usersTable, b \in usersTable' : a.PK = b.PK => a = b
  /\ \A c \in Chains : \A i \in NewCalls(c) :
       (calls'[c][i].op = "put" /\ calls'[c][i].what = "Inserted")
       => /\ ~\E item \in usersTable : item.user_id = calls'[c][i].key
          /\ \E item \in usersTable' : item.user_id = calls'[c][i].key

C22_InsertOnlyNeverModify == [][FrameStep]_vars

\* A Record was persisted and a later delivery of its Envelope attempted the
\* put again and went on to the failure handling: the Record is still the one
\* the handler built.
C22_Witness ==
  \E item \in usersTable : \E c \in Chains :
    /\ \E i \in PutsOf(c, item.user_id) :
         /\ calls[c][i].what = "ConditionalCheckFailed"
         /\ i < Len(calls[c])
         /\ calls[c][i + 1].what = "UserCreationRetryFailure"
    /\ item.created_at = 1
    /\ item.cognito_sub = trigger[item.user_id[1]].userName

\* The sends to the retry queue along a log, in order.
EnqueueIndices(log) == {i \in Indices(log) : log[i].op = "retry_send"}

\* C23: along a lineage, the first Envelope enqueued carries attempt count 1;
\* an Envelope with attempt count N+1 is enqueued only directly after the
\* retry processor's write with attempt count N failed and the retry-failure
\* metric for attempt N was published; and each enqueue carries exactly one
\* more than the enqueue before it.
C23_CausalAttemptOrder ==
  \A l \in Lineages :
    LET log == Log(l) IN
    \A i \in EnqueueIndices(log) :
      /\ (\A j \in EnqueueIndices(log) : j >= i) => log[i].n = 1
      /\ log[i].n >= 2
         => /\ i >= 3
            /\ log[i - 1].op = "metric"
            /\ log[i - 1].what = "UserCreationRetryFailure"
            /\ log[i - 1].n = log[i].n - 1
            /\ log[i - 2].op = "put"
            /\ log[i - 2].what # "Inserted"
            /\ log[i - 2].n = log[i].n - 1
      /\ \A j \in EnqueueIndices(log) :
           (j < i /\ \A k \in EnqueueIndices(log) : ~(j < k /\ k < i))
           => log[i].n = log[j].n + 1

\* A lineage was enqueued with attempt counts 1, 2 and 3, each re-enqueue
\* after the failure metric of the attempt before.
C23_Witness ==
  \E l \in Lineages :
    LET log == Log(l) IN
    /\ \E i \in EnqueueIndices(log) : log[i].n = 1 /\ log[i].what = "ok"
    /\ \E i \in EnqueueIndices(log) :
         log[i].n = 2 /\ log[i].what = "ok" /\ log[i - 1].what = "UserCreationRetryFailure"
    /\ \E i \in EnqueueIndices(log) :
         log[i].n = 3 /\ log[i].what = "ok" /\ log[i - 1].n = 2

\* The Envelope the handler of lineage l first enqueued, as its send recorded
\* it: the key of the carried Record and the first-attempt timestamp.
FirstEnqueue(log) ==
  log[CHOOSE i \in Indices(log) : log[i].op = "retry_send" /\ log[i].n = 1]

\* The Record the Envelope of lineage l carried when it was first enqueued:
\* the handler's, or the one sendToRetryQueue rebuilt when the handler had none.
CarriedRecord(l) ==
  BuildRecord(trigger[l], FirstEnqueue(Log(l)).key, FirstEnqueue(Log(l)).ts)

\* C24: every Envelope of a lineage on the retry queue or on the manual
\* intervention queue carries the Record (key and created_at included), the
\* original event and the firstAttemptTimestamp of the Envelope the handler
\* first enqueued; the retry processor changes attemptCount and lastError
\* only, and adds the marker and finalFailureTimestamp on escalation.
C24_EnvelopeFrame ==
  \A l \in Lineages :
    /\ \A m \in retryQueue :
         m.chain = <<l, 0>>
         => /\ m.body.userRecord = CarriedRecord(l)
            /\ m.body.originalEvent = trigger[l]
            /\ m.body.firstAttemptTimestamp = FirstEnqueue(Log(l)).ts
            /\ DOMAIN m.body = {"userRecord", "originalEvent", "attemptCount",
                                "firstAttemptTimestamp", "lastError"}
    /\ \A m \in manualQueue :
         m.chain = <<l, 0>>
         => /\ m.body.userRecord = CarriedRecord(l)
            /\ m.body.originalEvent = trigger[l]
            /\ m.body.firstAttemptTimestamp = FirstEnqueue(Log(l)).ts
            /\ DOMAIN m.body = {"userRecord", "originalEvent", "attemptCount",
                                "firstAttemptTimestamp", "lastError",
                                "finalFailureTimestamp", "requiresManualIntervention"}
    /\ \A i \in Indices(Log(l)) :
         Log(l)[i].op \in {"retry_send", "manual_send"}
         => /\ Log(l)[i].key = FirstEnqueue(Log(l)).key
            /\ Log(l)[i].ts = FirstEnqueue(Log(l)).ts

\* A lineage was re-scheduled twice and then escalated, and the Envelope on
\* the manual intervention queue carries the Record the handler built at time 1.
C24_Witness ==
  \E l \in Lineages : \E m \in manualQueue :
    /\ m.chain = <<l, 0>>
    /\ m.body.attemptCount = 3
    /\ m.body.finalFailureTimestamp > m.body.firstAttemptTimestamp
    /\ m.body.userRecord.created_at = 1
    /\ m.body.userRecord.user_id = <<l, 1>>

\* C25: every stored Record has created_at = updated_at. A Record the handler
\* inserted is the Record it built from the event at its one captured instant;
\* a Record a retry inserted carries the instant at which the post-confirmation
\* Lambda built it (the Envelope's first enqueue), which is earlier than the
\* instant of the retry that inserted it.
C25_SingleBuildInstant ==
  \A item \in usersTable :
    /\ item.created_at = item.updated_at
    /\ \A ci \in InsertsOf(item.user_id) :
         LET c == ci[1]
             put == calls[c][ci[2]]
         IN /\ item = BuildRecord(trigger[c[1]], item.user_id, item.created_at)
            /\ item.created_at < clock[c]
            /\ put.n >= 1
               => /\ item.created_at = FirstEnqueue(calls[c]).ts
                  /\ item.created_at < clock[c] - 1

\* The handler built a Record at time 1 and failed to store it twice more; the
\* third attempt of the retry processor, at time 4, inserted it with created_at 1.
C25_Witness ==
  \E item \in usersTable : \E ci \in InsertsOf(item.user_id) :
    /\ calls[ci[1]][ci[2]].n = 3
    /\ clock[ci[1]] = 5
    /\ item.created_at = 1
    /\ item.updated_at = 1

\* C26: every message on the manual intervention queue carries
\* requiresManualIntervention = TRUE and a finalFailureTimestamp (the instant
\* of the run that escalated it, after the first attempt); no message on the
\* primary retry queue, whether the handler or the retry processor placed it,
\* has either field.
C26_MarkerOnlyOnEscalation ==
  /\ \A m \in manualQueue :
       /\ {"requiresManualIntervention", "finalFailureTimestamp"} \subseteq DOMAIN m.body
       /\ m.body.requiresManualIntervention = TRUE
       /\ m.body.finalFailureTimestamp > m.body.firstAttemptTimestamp
  /\ \A m \in retryQueue :
       {"requiresManualIntervention", "finalFailureTimestamp"} \cap DOMAIN m.body = {}

\* One lineage is escalated while another has a re-scheduled Envelope (attempt
\* count above 1) on the primary retry queue.
C26_Witness ==
  /\ \E m \in manualQueue : m.body.requiresManualIntervention
  /\ \E m \in retryQueue : m.body.attemptCount >= 2

\* The puts of a chain's log that were cut off by the function's timeout.
TimedOutPuts(log) == {i \in Indices(log) : log[i].op = "put" /\ log[i].what = "TimedOut"}

\* C27: a store write that does not complete in time is treated like a failed
\* write. In the post-confirmation handler the event is returned and the
\* Envelope is sent to the retry queue; in the retry processor the attempt is
\* recorded as a failure (UserCreationRetryFailure with its attempt count) and
\* the Envelope is re-scheduled or escalated.
C27_TimeoutIsTransient ==
  \A l \in Lineages : \A i \in TimedOutPuts(Log(l)) :
    IF Log(l)[i].n = 0
    THEN /\ returned[l] = "event"
         /\ \E j \in Indices(Log(l)) : j > i /\ Log(l)[j].op = "retry_send" /\ Log(l)[j].n = 1
    ELSE /\ \E j \in Indices(Log(l)) :
              /\ j > i
              /\ Log(l)[j].op = "metric" /\ Log(l)[j].what = "UserCreationRetryFailure"
              /\ Log(l)[j].n = Log(l)[i].n
         /\ \E j \in Indices(Log(l)) :
              /\ j > i
              /\ \/ Log(l)[j].op = "retry_send" /\ Log(l)[j].n = Log(l)[i].n + 1
                 \/ Log(l)[j].op = "manual_send" /\ Log(l)[j].n = Log(l)[i].n

\* The sum of the DelaySeconds of the Envelopes a log's sends put on the
\* primary retry queue.
RECURSIVE SumDelays(_)
SumDelays(log) ==
  IF log = <<>> THEN 0
  ELSE (IF Head(log).op = "retry_send" /\ Head(log).what = "ok" THEN Head(log).d ELSE 0)
       + SumDelays(Tail(log))

\* C28: the delays scheduled along a lineage, the handler's first 30 seconds
\* included, sum to at most MAX_RETRY_ATTEMPTS x 300 seconds; in particular
\* for a lineage that failed every attempt and was escalated.
C28_TotalDelayBound ==
  \A l \in Lineages : SumDelays(Log(l)) <= MAX_RETRY_ATTEMPTS * MaxDelaySeconds

\* With three attempts configured a lineage failed all of them and was
\* escalated after 30 + 120 + 240 = 390 seconds of scheduled delay.
C28_Witness ==
  \E l \in Lineages :
    /\ MAX_RETRY_ATTEMPTS = ProdRetryAttempts
    /\ Escalated(l)
    /\ WorkerFailures(Log(l)) = ProdRetryAttempts
    /\ SumDelays(Log(l)) = 390

\* C29: no message on the manual intervention queue carries a Record whose
\* key is in the users table; a second delivery of a retry message whose
\* first delivery inserted the Record does not escalate the Envelope.
C29_NoEscalationOfStoredRecord ==
  \A m \in manualQueue :
    \A item \in usersTable : item.PK # m.body.userRecord.PK

\* An invocation of the retry processor took the messages Delivered: for each
\* of them the invocation ended with the batch metrics call reporting every
\* record of the batch as successful and none as failed, and what the chain
\* has on the retry queue afterwards is not the delivered message but, at
\* most, the Envelope the code re-scheduled with the next attempt count.
NeverRejectsStep ==
  \A m \in Delivered :
    LET log == calls'[m.chain]
    IN /\ Len(log) > Len(calls[m.chain])
       /\ log[Len(log)] = PublishBatchMetrics(Cardinality(Delivered), 0).calls[1]
       /\ \A i \in NewCalls(m.chain) :
            (log[i].op = "metric" /\ log[i].what = "RetryBatch") => i = Len(log)
       /\ \A r \in retryQueue' :
            r.chain = m.chain
            => /\ m.body # Malformed
               /\ r.body.attemptCount = m.body.attemptCount + 1

\* C30: processRetryRecord never rejects, whatever the store, the queues,
\* CloudWatch and SNS answer: every invocation of the retry processor
\* completes, reports successful = batch size and failed = 0, and leaves no
\* delivered message on the queue.
C30_NeverRejects == [][NeverRejectsStep]_vars

\* A batch of at least two records was processed in which one Envelope's write
\* failed and the send that handles the failure failed too (the critical
\* alert was raised); the batch metrics still report no failed record.
C30_Witness ==
  \E l \in Lineages :
    /\ Len(Log(l)) >= 1
    /\ Log(l)[Len(Log(l))].what = "RetryBatch"
    /\ Log(l)[Len(Log(l))].n >= 2
    /\ Log(l)[Len(Log(l))].d = 0
    /\ Count(Log(l), "alert", CriticalSubject) = 1
    /\ WorkerFailures(Log(l)) >= 1
    /\ ~InFlight(l) /\ ~Escalated(l) /\ ~Succeeded(l)

\* The put calls a step added to chain c.
NewPuts(c) == {i \in NewCalls(c) : calls'[c][i].op = "put"}

\* One processing of a well-formed Envelope m by the retry processor: one
\* PutCommand, and then exactly one of: the Record was inserted and nothing
\* was put on a queue; the write failed and one Envelope was put on the
\* primary retry queue; the write failed and one Envelope was put on the
\* manual intervention queue.
OneOutcomeStep ==
  \A m \in Delivered :
    m.body # Malformed
    => LET c == m.chain
           inserted == \E i \in NewPuts(c) : calls'[c][i].what = "Inserted"
           rescheduled == retryQueue' \ retryQueue
           escalated == manualQueue' \ manualQueue
       IN /\ Cardinality(NewPuts(c)) = 1
          /\ \/ inserted /\ rescheduled = {} /\ escalated = {}
             \/ ~inserted /\ Cardinality(rescheduled) = 1 /\ escalated = {}
             \/ ~inserted /\ rescheduled = {} /\ Cardinality(escalated) = 1

\* C31: each processing of a well-formed Envelope by the retry processor makes
\* exactly one store write attempt and ends in exactly one of three outcomes:
\* success with no queue write, one enqueue on the primary retry queue, or one
\* enqueue on the manual intervention queue.
C31_OneOutcomePerProcessing == [][OneOutcomeStep]_vars

\* C32: every Envelope on the primary retry queue, and every Envelope a send
\* ever put there, has 1 <= attemptCount <= MAX_RETRY_ATTEMPTS; every Envelope
\* on the manual intervention queue, and every one sent there, has
\* attemptCount = MAX_RETRY_ATTEMPTS, the count of the last failed attempt.
C32_AttemptCountRange ==
  /\ \A m \in retryQueue :
       1 <= m.body.attemptCount /\ m.body.attemptCount <= MAX_RETRY_ATTEMPTS
  /\ \A m \in manualQueue : m.body.attemptCount = MAX_RETRY_ATTEMPTS
  /\ \A c \in Chains : \A i \in Indices(calls[c]) :
       /\ calls[c][i].op = "retry_send"
          => 1 <= calls[c][i].n /\ calls[c][i].n <= MAX_RETRY_ATTEMPTS
       /\ calls[c][i].op = "manual_send" => calls[c][i].n = MAX_RETRY_ATTEMPTS

\* One lineage was escalated with attemptCount = MAX_RETRY_ATTEMPTS while
\* another has its last permitted Envelope on the primary retry queue.
C32_Witness ==
  /\ \E m \in manualQueue : m.body.attemptCount = MAX_RETRY_ATTEMPTS
  /\ \E m \in retryQueue : m.body.attemptCount = MAX_RETRY_ATTEMPTS
  /\ \E l \in Lineages : Count(Log(l), "retry_send", "ok") = MAX_RETRY_ATTEMPTS

\* The calls with operation op that a step added to chain c.
NewCallsOf(c, op) == {i \in NewCalls(c) : calls'[c][i].op = op}

\* One invocation of the post-confirmation handler (the step in which
\* invocation l returns): at most one PutCommand, at most one send to the
\* primary retry queue and at most one message added to it, none when the
\* PutCommand inserted the Record; nothing is sent to the manual intervention
\* queue and no admin alert is published.
HandlerEffectsStep ==
  \A l \in Lineages :
    (returned[l] = "none" /\ returned'[l] # "none")
    => LET c == <<l, 0>>
       IN /\ Cardinality(NewCallsOf(c, "put")) <= 1
          /\ Cardinality(NewCallsOf(c, "retry_send")) <= 1
          /\ Cardinality(retryQueue' \ retryQueue) <= 1
          /\ (\E i \in NewCallsOf(c, "put") : calls'[c][i].what = "Inserted")
             => NewCallsOf(c, "retry_send") = {} /\ retryQueue' = retryQueue
          /\ NewCallsOf(c, "manual_send") = {}
          /\ NewCallsOf(c, "alert") = {}
          /\ manualQueue' = manualQueue
          /\ \A k \in Chains : k # c => calls'[k] = calls[k]

\* C33: each invocation of the post-confirmation handler makes at most one
\* store write attempt and at most one enqueue on the retry queue, never
\* enqueues when its write succeeded, never writes to the manual intervention
\* queue and never sends an admin alert.
C33_HandlerEffects == [][HandlerEffectsStep]_vars

\* Two invocations have returned: one inserted its Record and sent nothing,
\* the other failed its write and sent one Envelope.
C33_Witness ==
  \E l, k \in Lineages :
    /\ returned[l] = "event" /\ returned[k] = "event"
    /\ Count(Log(l), "put", "Inserted") = 1 /\ CountOp(Log(l), "retry_send") = 0
    /\ Count(Log(k), "put", "Error") = 1 /\ Count(Log(k), "retry_send", "ok") = 1
    /\ Len(Log(k)) = 4

\* C34: a retry message whose body is not JSON causes no PutCommand, no send
\* to either queue and no item; its processing publishes the one critical
\* admin alert, carrying the parse error, and the message is consumed (the
\* invocation it was part of ends with its batch metrics and counts it as
\* successful).
C34_MalformedOnlyAlerts ==
  \A c \in ForeignChains :
    /\ \A m \in manualQueue : m.chain # c
    /\ \A item \in usersTable : item.user_id[1] # c[1]
    /\ \A m \in retryQueue : m.chain = c => m.body = Malformed /\ calls[c] = << >>
    /\ calls[c] # << >>
       => /\ Len(calls[c]) = 2
          /\ calls[c][1] = Call("alert", CriticalSubject, 0, 0, SyntaxError.message, NoKey, 0)
          /\ calls[c][2].op = "metric" /\ calls[c][2].what = "RetryBatch"
          /\ calls[c][2].n >= 1 /\ calls[c][2].d = 0

\* A malformed message was processed in a batch together with an Envelope
\* whose write failed and was re-scheduled: the malformed one left the alert
\* only and is gone from the queue.
C34_Witness ==
  \E c \in ForeignChains : \E l \in Lineages :
    /\ Len(calls[c]) = 2
    /\ calls[c][1].what = CriticalSubject
    /\ calls[c][2].n = 2
    /\ \A m \in retryQueue : m.chain # c
    /\ WorkerFailures(Log(l)) = 1 /\ InFlight(l)
    /\ Log(l)[Len(Log(l))] = calls[c][2]

\* C35: every invocation of the post-confirmation handler that has completed
\* returned the trigger event it was given, unmodified, whichever path it took
\* (insert, store failure, missing table name, exception) and whatever the
\* store, the queue and CloudWatch answered.
C35_ReturnsEventUnmodified ==
  \A l \in Lineages :
    /\ returned[l] \in {"none", "event"}
    /\ returned[l] = "event" => HandlerReturn(trigger[l], processEnv) = trigger[l]

\* With the table name missing, one invocation enqueued its event with the
\* configuration error and another, whose event has no attributes, enqueued
\* nothing; both returned the event.
C35_Witness ==
  \E l, k \in Lineages :
    /\ ~processEnv.USERS_TABLE_NAME
    /\ returned[l] = "event" /\ returned[k] = "event"
    /\ trigger[l].userAttributes.defined
    /\ \E i \in Indices(Log(l)) :
         Log(l)[i].op = "retry_send" /\ Log(l)[i].e = MissingTableError.message
    /\ ~trigger[k].userAttributes.defined
    /\ CountOp(Log(k), "retry_send") = 0

\* The handler's own PutCommand in a log: the calls that show it had built a
\* Record before anything was enqueued.
HandlerPuts(log) == {i \in Indices(log) : log[i].op = "put" /\ log[i].n = 0}

\* The Record an Envelope of lineage l must carry: the one the handler built
\* and tried to write if it got that far, else one with a fresh key.
ExpectedRecord(l, ts) ==
  IF HandlerPuts(Log(l)) # {}
  THEN BuildRecord(trigger[l], Log(l)[CHOOSE i \in HandlerPuts(Log(l)) : TRUE].key, ts)
  ELSE BuildRecord(trigger[l], RandomUUID(l, 2), ts)

\* C36: when the handler's store write failed for the Record it had built,
\* every Envelope of the lineage carries that Record, with the key of the
\* failed write and the timestamps of the invocation; an Envelope carries a
\* Record with a fresh key only when the handler made no write, which happens
\* only when the table name is missing.
C36_EnvelopeCarriesBuiltRecord ==
  \A l \in Lineages :
    /\ \A m \in retryQueue \cup manualQueue :
         m.chain = <<l, 0>>
         => /\ m.body.userRecord = ExpectedRecord(l, m.body.firstAttemptTimestamp)
            /\ HandlerPuts(Log(l)) = {} => ~processEnv.USERS_TABLE_NAME
    /\ \A i \in Indices(Log(l)) :
         Log(l)[i].op \in {"retry_send", "manual_send"}
         => /\ Log(l)[i].key = ExpectedRecord(l, Log(l)[i].ts).user_id
            /\ HandlerPuts(Log(l)) = {} => ~processEnv.USERS_TABLE_NAME
    /\ \A i \in HandlerPuts(Log(l)) : Log(l)[i].key = RandomUUID(l, 1)

\* An invocation built its Record, failed to write it and enqueued it: the
\* Envelope on the retry queue carries the key of the failed write.
C36_Witness ==
  \E l \in Lineages : \E m \in retryQueue :
    /\ m.chain = <<l, 0>>
    /\ m.body.attemptCount = 1
    /\ HandlerPuts(Log(l)) # {}
    /\ Log(l)[1].what = "Error"
    /\ m.body.userRecord.user_id = Log(l)[1].key
    /\ m.body.userRecord.created_at = m.body.firstAttemptTimestamp

====
